---- MODULE Spec2Model ----
(***************************************************************************)
(* A model of gsk/gskslcompiler.c: the GskSlCompiler object, its table of  *)
(* defines, include resolution and the compile entry points.               *)
(*                                                                         *)
(* The tokenizer, GskSlDefine, GskCodeSource, the preprocessor and the     *)
(* program live in other files of the library; they are modelled by what   *)
(* the design document says about them.                                    *)
(***************************************************************************)
EXTENDS Integers, Sequences, FiniteSets, TLC

VARIABLES
  compiler,    \* "alive" or "disposed": the GskSlCompiler object
  defines,     \* compiler->defines: name |-> address of a GskSlDefine
  heap,        \* every GskSlDefine ever allocated, by address 1..Len(heap)
  copies,      \* the tables returned by copy_defines, in order of creation
  pc,          \* position inside gsk_sl_compiler_add_define
  define,      \* add_define's local: the GskSlDefine being built (0 = none)
  tokenizer,   \* add_define's local tokenizer: remaining input and position
  token,       \* add_define's local: the type of the token last read
  location,    \* add_define's local: position copied before the last read
  real_error,  \* add_define's local: what the error callback has recorded
  error,       \* the caller's GError slot of the last call
  ret,         \* the gboolean add_define returned last
  op,          \* the API call in progress or last completed, with arguments
  diags,       \* the diagnostics delivered to the callback during this call
  reads,       \* the number of read_token calls made during this call
  files,       \* the paths that can be loaded from the file system
  include,     \* the last resolve_include call: arguments and outcome
  cpc,         \* position inside gsk_sl_compiler_compile
  program,     \* the GskSlProgram of the compile call
  preproc,     \* the GskSlPreprocessor of the compile call
  stream,      \* what the preprocessor has still to deliver to the parser
  compiled     \* the compile call: entry point, text, returned program

definevars == <<compiler, defines, heap, copies, pc, define, tokenizer, token,
                location, real_error, error, ret, op, diags, reads>>
includevars == <<files, include>>
compilevars == <<cpc, program, preproc, stream, compiled>>
vars == <<definevars, includevars, compilevars>>

-----------------------------------------------------------------------------
(* Bounds *)

MaxLen == 2        \* longest definition text, in lexemes
MaxDefines == 2    \* GskSlDefine allocations in one behaviour
MaxCopies == 1     \* copy_defines calls in one behaviour
MaxProgramLen == 3 \* longest program text, in tokens

-----------------------------------------------------------------------------
(* Names and definition texts *)

FOO == <<"F", "O", "O">>
BAR == <<"B", "A", "R">>
BAD == <<"1", "b", "a", "d">>
Names == {FOO, BAR, BAD}

Letters == {"F", "O", "B", "A", "R", "b", "a", "d", "_"}
Digits == {"1"}

gsk_sl_string_is_valid_identifier(name) ==
  /\ Len(name) > 0
  /\ name[1] \in Letters
  /\ \A i \in 1..Len(name) : name[i] \in Letters \cup Digits

\* One lexeme of a definition text: "one" is the text 1, "space" and
\* "newline" are white space, "overflow" lexes to a constant with a warning,
\* "bad" is a character no token starts with, "junk" a malformed token that
\* is still delivered.
Lexemes == {"one", "space", "newline", "overflow", "bad", "junk"}

RECURSIVE SeqsUpTo(_, _)
SeqsUpTo(S, n) ==
  IF n = 0 THEN {<<>>}
  ELSE LET shorter == SeqsUpTo(S, n - 1)
       IN shorter \cup {Append(s, x) : s \in shorter, x \in S}

\* The NULL pointer passed as definition, distinct from every text.
NULLDefinition == <<"NULL">>

Definitions == SeqsUpTo(Lexemes, MaxLen) \cup {NULLDefinition}

\* The definitions the table-level specification draws from: the default,
\* a one-token body, a two-token body with white space, a failing one.
TableDefinitions ==
  {NULLDefinition, <<"one", "space", "one">>, <<"bad">>}

-----------------------------------------------------------------------------
(* Errors *)

NoError == [domain |-> "none", code |-> "none", message |-> <<>>]

DigitChar(n) == <<"0", "1", "2", "3", "4", "5", "6", "7", "8", "9">>[n + 1]

RECURSIVE DecimalDigits(_)
DecimalDigits(n) ==
  IF n < 10 THEN <<DigitChar(n)>>
  ELSE Append(DecimalDigits(n \div 10), DigitChar(n % 10))

RECURSIVE PadLeft(_, _)
PadLeft(s, width) ==
  IF Len(s) >= width THEN s ELSE PadLeft(<<" ">> \o s, width)

\* printf's %<width>zu
FormatZu(n, width) == PadLeft(DecimalDigits(n), width)

\* g_prefix_error (real_error, "%3zu:%2zu: ", lines + 1, line_bytes)
g_prefix_error(err, loc) ==
  [err EXCEPT !.message =
     FormatZu(loc.lines + 1, 3) \o <<":">> \o FormatZu(loc.line_bytes, 2)
       \o <<":", " ">> \o @]

InvalidIdentifierError(name) ==
  [domain |-> "G_FILE_ERROR", code |-> "G_FILE_ERROR_FAILED",
   message |-> <<"Define name \"">> \o name
                 \o <<"\" is not a valid identifier">>]

-----------------------------------------------------------------------------
(* The tokenizer *)

StartPosition == [lines |-> 0, line_bytes |-> 0]

TokenType(c) ==
  CASE c = "one"      -> "INTCONSTANT"
    [] c = "overflow" -> "INTCONSTANT"
    [] c = "junk"     -> "STRING"
    [] c = "space"    -> "WHITESPACE"
    [] c = "newline"  -> "NEWLINE"
    [] c = "bad"      -> "ERROR"

TokenizerError(msg) ==
  [domain |-> "GSK_SL_COMPILER_ERROR", code |-> "SYNTAX", message |-> <<msg>>]
TokenizerWarning(msg) ==
  [domain |-> "GSK_SL_COMPILER_WARNING", code |-> "OVERFLOW",
   message |-> <<msg>>]

\* The diagnostics reading lexeme c at position pos hands to the callback.
Diagnostics(c, pos) ==
  CASE c = "overflow" ->
         <<[fatal |-> FALSE, location |-> pos,
            error |-> TokenizerWarning("overflow")]>>
    [] c = "bad" ->
         <<[fatal |-> TRUE, location |-> pos,
            error |-> TokenizerError("unknown character")]>>
    [] c = "junk" ->
         <<[fatal |-> FALSE, location |-> pos,
            error |-> TokenizerWarning("odd string")],
           [fatal |-> TRUE, location |-> pos,
            error |-> TokenizerError("unterminated string")]>>
    [] OTHER -> <<>>

Advance(c, pos) ==
  IF c = "newline"
    THEN [lines |-> pos.lines + 1, line_bytes |-> 0]
    ELSE [lines |-> pos.lines, line_bytes |-> pos.line_bytes + 1]

gsk_sl_tokenizer_new(text) == [input |-> text, position |-> StartPosition]

gsk_sl_tokenizer_get_location(tk) == tk.position

\* read_token: the token read, the diagnostics delivered while reading it,
\* and the tokenizer afterwards.
gsk_sl_tokenizer_read_token(tk) ==
  IF tk.input = <<>>
    THEN [token |-> "EOF", diags |-> <<>>, tokenizer |-> tk]
    ELSE LET c == Head(tk.input)
         IN [token |-> TokenType(c),
             diags |-> Diagnostics(c, tk.position),
             tokenizer |-> [input |-> Tail(tk.input),
                            position |-> Advance(c, tk.position)]]

gsk_sl_token_is_skipped(t) ==
  t \in {"ERROR", "NEWLINE", "WHITESPACE", "COMMENT", "SINGLE_LINE_COMMENT"}

NoTokenizer == [input |-> <<>>, position |-> StartPosition]

-----------------------------------------------------------------------------
(* GskSlDefine: reference counted, destroyed at count 0 *)

gsk_sl_define_new(name) == [name |-> name, tokens |-> <<>>, ref_count |-> 1]

Destroyed == [name |-> <<>>, tokens |-> <<>>, ref_count |-> 0]

gsk_sl_define_ref(h, id) == [h EXCEPT ![id].ref_count = @ + 1]

gsk_sl_define_unref(h, id) ==
  IF h[id].ref_count = 1
    THEN [h EXCEPT ![id] = Destroyed]
    ELSE [h EXCEPT ![id].ref_count = @ - 1]

gsk_sl_define_add_token(h, id, loc, tok) ==
  [h EXCEPT ![id].tokens = Append(@, [location |-> loc, token |-> tok])]

-----------------------------------------------------------------------------
(* GHashTable with value destroy notify gsk_sl_define_unref *)

EmptyTable == <<>>

\* g_hash_table_replace: the table afterwards
TableReplace(t, key, value) ==
  [k \in (DOMAIN t) \cup {key} |-> IF k = key THEN value ELSE t[k]]

\* g_hash_table_replace: the heap afterwards (the old value is unreffed)
HeapReplace(h, t, key) ==
  IF key \in DOMAIN t THEN gsk_sl_define_unref(h, t[key]) ELSE h

\* Mutant: g_hash_table_remove_all in place of g_hash_table_remove.
TableRemoveAll(t, key) == IF key \in DOMAIN t THEN EmptyTable ELSE t

\* g_hash_table_remove
TableRemove(t, key) == [k \in (DOMAIN t) \ {key} |-> t[k]]

HeapRemove(h, t, key) ==
  IF key \in DOMAIN t THEN gsk_sl_define_unref(h, t[key]) ELSE h

RECURSIVE UnrefAll(_, _, _)
UnrefAll(h, t, keys) ==
  IF keys = {} THEN h
  ELSE LET k == CHOOSE x \in keys : TRUE
       IN UnrefAll(gsk_sl_define_unref(h, t[k]), t, keys \ {k})

\* g_hash_table_destroy: every value is unreffed
HeapDestroy(h, t) == UnrefAll(h, t, DOMAIN t)

-----------------------------------------------------------------------------
(* gsk_sl_compiler_add_define and its error callback *)

NoOp == [name |-> "none", key |-> <<>>, definition |-> <<>>, copy |-> 0]

\* Mutant: the callback without the test for an error already recorded.
error_func_last_fatal(recorded, fatal, loc, err) ==
  IF ~fatal THEN recorded ELSE g_prefix_error(err, loc)

\* The callback: only the first fatal diagnostic is recorded.
gsk_sl_compiler_add_define_error_func(recorded, fatal, loc, err) ==
  IF ~fatal THEN recorded
  ELSE IF recorded # NoError THEN recorded
  ELSE g_prefix_error(err, loc)

\* The callback applied to the diagnostics of one read_token, in order.
RECURSIVE DeliverDiagnostics(_, _)
DeliverDiagnostics(recorded, ds) ==
  IF ds = <<>> THEN recorded
  ELSE DeliverDiagnostics(
         gsk_sl_compiler_add_define_error_func(
           recorded, Head(ds).fatal, Head(ds).location, Head(ds).error),
         Tail(ds))

\* Entry: the identifier check, the default definition, the new define
\* and the tokenizer.
gsk_sl_compiler_add_define(name, definition) ==
  /\ compiler = "alive"
  /\ pc = "idle"
  /\ op' = [name |-> "add_define", key |-> name, definition |-> definition,
            copy |-> 0]
  /\ diags' = <<>>
  /\ reads' = 0
  /\ IF ~gsk_sl_string_is_valid_identifier(name)
       THEN /\ error' = InvalidIdentifierError(name)
            /\ ret' = FALSE
            /\ UNCHANGED <<heap, define, tokenizer, pc, real_error>>
       ELSE /\ Len(heap) < MaxDefines
            /\ heap' = Append(heap, gsk_sl_define_new(name))
            /\ define' = Len(heap) + 1
            /\ tokenizer' = gsk_sl_tokenizer_new(
                              IF definition = NULLDefinition
                                THEN <<"one">> ELSE definition)
            /\ real_error' = NoError
            /\ error' = NoError
            /\ pc' = "read"
            /\ UNCHANGED ret
  /\ UNCHANGED <<compiler, defines, copies, token, location>>
  /\ UNCHANGED <<includevars, compilevars>>

\* Mutant: the location is copied after the token is read.
add_define_read_location_late ==
  /\ pc = "read"
  /\ LET r == gsk_sl_tokenizer_read_token(tokenizer)
         loc == gsk_sl_tokenizer_get_location(r.tokenizer)
     IN /\ location' = loc
        /\ token' = r.token
        /\ tokenizer' = r.tokenizer
        /\ real_error' = DeliverDiagnostics(real_error, r.diags)
        /\ diags' = diags \o r.diags
        /\ reads' = reads + 1
        /\ IF gsk_sl_token_is_skipped(r.token)
             THEN UNCHANGED <<heap, pc>>
             ELSE IF r.token = "EOF"
               THEN pc' = "finish" /\ UNCHANGED heap
               ELSE /\ heap' = gsk_sl_define_add_token(heap, define, loc,
                                                       r.token)
                    /\ UNCHANGED pc
  /\ UNCHANGED <<compiler, defines, copies, define, error, ret, op>>
  /\ UNCHANGED <<includevars, compilevars>>

\* Mutant: the loop is left as soon as the callback has recorded an error.
add_define_read_break_on_error ==
  /\ pc = "read"
  /\ LET loc == gsk_sl_tokenizer_get_location(tokenizer)
         r == gsk_sl_tokenizer_read_token(tokenizer)
         recorded == DeliverDiagnostics(real_error, r.diags)
     IN /\ location' = loc
        /\ token' = r.token
        /\ tokenizer' = r.tokenizer
        /\ real_error' = recorded
        /\ diags' = diags \o r.diags
        /\ reads' = reads + 1
        /\ IF recorded # NoError
             THEN pc' = "finish" /\ UNCHANGED heap
             ELSE IF gsk_sl_token_is_skipped(r.token)
               THEN UNCHANGED <<heap, pc>>
               ELSE IF r.token = "EOF"
                 THEN pc' = "finish" /\ UNCHANGED heap
                 ELSE /\ heap' = gsk_sl_define_add_token(heap, define, loc,
                                                         r.token)
                      /\ UNCHANGED pc
  /\ UNCHANGED <<compiler, defines, copies, define, error, ret, op>>
  /\ UNCHANGED <<includevars, compilevars>>

\* One pass through the body of the inner do-while and what follows it.
gsk_sl_compiler_add_define_read ==
  /\ pc = "read"
  /\ LET loc == gsk_sl_tokenizer_get_location(tokenizer)
         r == gsk_sl_tokenizer_read_token(tokenizer)
     IN /\ location' = loc
        /\ token' = r.token
        /\ tokenizer' = r.tokenizer
        /\ real_error' = DeliverDiagnostics(real_error, r.diags)
        /\ diags' = diags \o r.diags
        /\ reads' = reads + 1
        /\ IF gsk_sl_token_is_skipped(r.token)
             THEN UNCHANGED <<heap, pc>>
             ELSE IF r.token = "EOF"
               THEN pc' = "finish" /\ UNCHANGED heap
               ELSE /\ heap' = gsk_sl_define_add_token(heap, define, loc,
                                                       r.token)
                    /\ UNCHANGED pc
  /\ UNCHANGED <<compiler, defines, copies, define, error, ret, op>>
  /\ UNCHANGED <<includevars, compilevars>>

\* Mutant: the define is put into the table before the error is looked at.
add_define_finish_store_first ==
  /\ pc = "finish"
  /\ token' = "NONE"
  /\ tokenizer' = NoTokenizer
  /\ location' = StartPosition
  /\ defines' = TableReplace(defines, heap[define].name, define)
  /\ heap' = HeapReplace(heap, defines, heap[define].name)
  /\ IF real_error = NoError
       THEN ret' = TRUE /\ UNCHANGED error
       ELSE error' = real_error /\ ret' = FALSE
  /\ pc' = "idle"
  /\ UNCHANGED <<compiler, copies, define, real_error, op, diags, reads>>
  /\ UNCHANGED <<includevars, compilevars>>

\* After the loop: release the tokenizer, then store or drop the define.
gsk_sl_compiler_add_define_finish ==
  /\ pc = "finish"
  /\ token' = "NONE"
  /\ tokenizer' = NoTokenizer
  /\ location' = StartPosition
  /\ IF real_error = NoError
       THEN /\ defines' = TableReplace(defines, heap[define].name, define)
            /\ heap' = HeapReplace(heap, defines, heap[define].name)
            /\ ret' = TRUE
            /\ UNCHANGED error
       ELSE /\ heap' = gsk_sl_define_unref(heap, define)
            /\ error' = real_error
            /\ ret' = FALSE
            /\ UNCHANGED defines
  /\ pc' = "idle"
  /\ UNCHANGED <<compiler, copies, define, real_error, op, diags, reads>>
  /\ UNCHANGED <<includevars, compilevars>>

\* The locals of add_define do not outlive the call: whoever calls next
\* finds nothing of them.
LocalsGone ==
  /\ define' = 0
  /\ real_error' = NoError
  /\ diags' = <<>>
  /\ reads' = 0
  /\ UNCHANGED <<tokenizer, token, location>>

\* gsk_sl_compiler_remove_define
gsk_sl_compiler_remove_define(name) ==
  /\ compiler = "alive"
  /\ pc = "idle"
  /\ op' = [name |-> "remove_define", key |-> name, definition |-> <<>>,
            copy |-> 0]
  /\ defines' = TableRemove(defines, name)
  /\ heap' = HeapRemove(heap, defines, name)
  /\ LocalsGone
  /\ UNCHANGED <<compiler, copies, pc, error, ret>>
  /\ UNCHANGED <<includevars, compilevars>>

\* Mutant: the copy takes the values without referencing them.
RefNone(h, t, keys) == h

\* The loop of copy_defines: every value of the table gets one more
\* reference.
RECURSIVE RefAll(_, _, _)
RefAll(h, t, keys) ==
  IF keys = {} THEN h
  ELSE LET k == CHOOSE x \in keys : TRUE
       IN RefAll(gsk_sl_define_ref(h, t[k]), t, keys \ {k})

\* The table copy_defines builds from table t.
CopyTable(t) == [k \in DOMAIN t |-> t[k]]

gsk_sl_compiler_copy_defines ==
  /\ compiler = "alive"
  /\ pc = "idle"
  /\ Len(copies) < MaxCopies
  /\ op' = [name |-> "copy_defines", key |-> <<>>, definition |-> <<>>,
            copy |-> Len(copies) + 1]
  /\ copies' = Append(copies, [live |-> TRUE, table |-> CopyTable(defines)])
  /\ heap' = RefAll(heap, defines, DOMAIN defines)
  /\ LocalsGone
  /\ UNCHANGED <<compiler, defines, pc, error, ret>>
  /\ UNCHANGED <<includevars, compilevars>>

\* Mutant: dispose that forgets the table.
dispose_without_destroy ==
  /\ compiler = "alive"
  /\ pc = "idle"
  /\ op' = [name |-> "dispose", key |-> <<>>, definition |-> <<>>,
            copy |-> 0]
  /\ compiler' = "disposed"
  /\ defines' = EmptyTable
  /\ LocalsGone
  /\ UNCHANGED <<heap, copies, pc, error, ret>>
  /\ UNCHANGED <<includevars, compilevars>>

\* gsk_sl_compiler_dispose
gsk_sl_compiler_dispose ==
  /\ compiler = "alive"
  /\ pc = "idle"
  /\ op' = [name |-> "dispose", key |-> <<>>, definition |-> <<>>,
            copy |-> 0]
  /\ compiler' = "disposed"
  /\ heap' = HeapDestroy(heap, defines)
  /\ defines' = EmptyTable
  /\ LocalsGone
  /\ UNCHANGED <<copies, pc, error, ret>>
  /\ UNCHANGED <<includevars, compilevars>>

(* What the holder of a copy does with it *)

\* g_hash_table_remove on a copy
copy_remove(c, name) ==
  /\ pc = "idle"
  /\ c \in 1..Len(copies)
  /\ copies[c].live
  /\ op' = [name |-> "copy_remove", key |-> name, definition |-> <<>>,
            copy |-> c]
  /\ copies' = [copies EXCEPT ![c].table = TableRemove(@, name)]
  /\ heap' = HeapRemove(heap, copies[c].table, name)
  /\ LocalsGone
  /\ UNCHANGED <<compiler, defines, pc, error, ret>>
  /\ UNCHANGED <<includevars, compilevars>>

\* g_hash_table_replace on a copy with a define the holder made
copy_add(c, name) ==
  /\ pc = "idle"
  /\ c \in 1..Len(copies)
  /\ copies[c].live
  /\ gsk_sl_string_is_valid_identifier(name)
  /\ Len(heap) < MaxDefines
  /\ op' = [name |-> "copy_add", key |-> name, definition |-> <<>>,
            copy |-> c]
  /\ copies' = [copies EXCEPT
                  ![c].table = TableReplace(@, name, Len(heap) + 1)]
  /\ heap' = HeapReplace(Append(heap, gsk_sl_define_new(name)),
                         copies[c].table, name)
  /\ LocalsGone
  /\ UNCHANGED <<compiler, defines, pc, error, ret>>
  /\ UNCHANGED <<includevars, compilevars>>

\* g_hash_table_destroy (or the last unref) on a copy
copy_destroy(c) ==
  /\ pc = "idle"
  /\ c \in 1..Len(copies)
  /\ copies[c].live
  /\ op' = [name |-> "copy_destroy", key |-> <<>>, definition |-> <<>>,
            copy |-> c]
  /\ copies' = [copies EXCEPT ![c] = [live |-> FALSE, table |-> EmptyTable]]
  /\ heap' = HeapDestroy(heap, copies[c].table)
  /\ LocalsGone
  /\ UNCHANGED <<compiler, defines, pc, error, ret>>
  /\ UNCHANGED <<includevars, compilevars>>

-----------------------------------------------------------------------------
(* GskCodeSource and the file system *)

NoFile == <<>>

\* gsk_code_source_new_for_file / gsk_code_source_new_for_bytes
gsk_code_source_new_for_file(file) ==
  [name |-> "<file>", file |-> file, ref_count |-> 1]
gsk_code_source_new_for_bytes(name) ==
  [name |-> name, file |-> NoFile, ref_count |-> 1]

NoSource == [name |-> "NULL", file |-> NoFile, ref_count |-> 0]

gsk_code_source_get_file(source) == source.file

g_file_get_parent(file) == SubSeq(file, 1, Len(file) - 1)

g_file_resolve_relative_path(parent, name) == parent \o name

LoadError(file) ==
  [domain |-> "G_IO_ERROR", code |-> "G_IO_ERROR_NOT_FOUND",
   message |-> <<"Error opening file ">> \o file]

\* gsk_code_source_load: the bytes are there exactly for the files that exist
gsk_code_source_load(source) == source.file \in files

ResolveError(name) ==
  [domain |-> "G_FILE_ERROR", code |-> "G_FILE_ERROR_EXIST",
   message |-> <<"Could not resolve \"">> \o name
                 \o <<"\" in search path.">>]

AllFiles ==
  {<<"dir", "a.glsl">>, <<"dir", "sub", "b.glsl">>, <<"other", "a.glsl">>}

IncludeNames == {<<"a.glsl">>, <<"sub", "b.glsl">>, <<"missing.glsl">>}

BaseSources ==
  {gsk_code_source_new_for_file(<<"dir", "main.glsl">>),
   gsk_code_source_new_for_file(<<"other", "main.glsl">>),
   gsk_code_source_new_for_bytes("<program>")}

NoInclude ==
  [called |-> FALSE, base |-> NoSource, local |-> FALSE, name |-> <<>>,
   result |-> NoSource, candidate |-> NoSource, error |-> NoError,
   loads |-> {}]

\* Mutant: an include that is not local is looked up like a local one.
ResolveIncludeAsLocal(source, local, name) ==
  LET source_file == gsk_code_source_get_file(source)
      call == [NoInclude EXCEPT !.called = TRUE, !.base = source,
                                !.local = local, !.name = name]
  IN IF source_file # NoFile
       THEN LET parent == g_file_get_parent(source_file)
                file == g_file_resolve_relative_path(parent, name)
                result == gsk_code_source_new_for_file(file)
            IN IF gsk_code_source_load(result)
                 THEN [call EXCEPT !.result = result, !.candidate = result,
                                   !.loads = {file}]
                 ELSE [call EXCEPT
                         !.candidate = [result EXCEPT !.ref_count = @ - 1],
                         !.error = LoadError(file),
                         !.loads = {file}]
       ELSE [call EXCEPT !.error = ResolveError(name)]

\* gsk_sl_compiler_resolve_include: the record of the whole call.  result
\* is the source returned (NoSource for NULL), candidate the source the call
\* created with its reference count at return, loads the files it tried to
\* load.
ResolveInclude(source, local, name) ==
  LET source_file == gsk_code_source_get_file(source)
      call == [NoInclude EXCEPT !.called = TRUE, !.base = source,
                                !.local = local, !.name = name]
  IN IF local
       THEN IF source_file # NoFile
              THEN LET parent == g_file_get_parent(source_file)
                       file == g_file_resolve_relative_path(parent, name)
                       result == gsk_code_source_new_for_file(file)
                   IN IF gsk_code_source_load(result)
                        THEN [call EXCEPT !.result = result,
                                          !.candidate = result,
                                          !.loads = {file}]
                        ELSE [call EXCEPT
                                !.candidate =
                                   [result EXCEPT !.ref_count = @ - 1],
                                !.error = LoadError(file),
                                !.loads = {file}]
              ELSE call
       ELSE [call EXCEPT !.error = ResolveError(name)]

gsk_sl_compiler_resolve_include(source, local, name) ==
  /\ include' = ResolveInclude(source, local, name)
  /\ UNCHANGED files
  /\ UNCHANGED <<definevars, compilevars>>

-----------------------------------------------------------------------------
(* The compile pipeline *)

ProgramTokens == {"ok", "warning", "fatal"}

ProgramTexts == SeqsUpTo(ProgramTokens, MaxProgramLen)

NoProgram == [state |-> "none", parsed |-> 0]
NoPreprocessor == [ref_count |-> 0, fatal_error |-> FALSE]
NoCompile ==
  [entry |-> "none", source |-> NoSource, text |-> <<>>, loadable |-> TRUE,
   result |-> "none"]

\* gsk_sl_preprocessor_new: a source that cannot be loaded is a fatal error
gsk_sl_preprocessor_new(loadable) ==
  [ref_count |-> 1, fatal_error |-> ~loadable]

gsk_sl_preprocessor_has_fatal_error(p) == p.fatal_error

\* gsk_sl_compiler_compile up to the call of gsk_sl_program_parse
CompileBegin(entry, source, text, loadable) ==
  /\ compiler = "alive"
  /\ cpc = "idle"
  /\ program' = [state |-> "live", parsed |-> 0]
  /\ preproc' = gsk_sl_preprocessor_new(loadable)
  /\ stream' = IF loadable THEN text ELSE <<>>
  /\ compiled' = [entry |-> entry, source |-> source, text |-> text,
                  loadable |-> loadable, result |-> "pending"]
  /\ cpc' = "parse"
  /\ UNCHANGED <<definevars, includevars>>

gsk_sl_compiler_compile_file(file, text, loadable) ==
  CompileBegin("compile_file", gsk_code_source_new_for_file(file), text,
               loadable)

gsk_sl_compiler_compile_bytes(text) ==
  CompileBegin("compile_bytes", gsk_code_source_new_for_bytes("<program>"),
               text, TRUE)

\* gsk_sl_program_parse consuming one token of the preprocessor's stream
gsk_sl_program_parse_token ==
  /\ cpc = "parse"
  /\ stream # <<>>
  /\ stream' = Tail(stream)
  /\ preproc' = [preproc EXCEPT
                   !.fatal_error = @ \/ Head(stream) = "fatal"]
  /\ program' = [program EXCEPT !.parsed = @ + 1]
  /\ UNCHANGED <<cpc, compiled>>
  /\ UNCHANGED <<definevars, includevars>>

\* gsk_sl_program_parse returning: at the end of the stream, or early once
\* a fatal error has been recorded
gsk_sl_program_parse_return ==
  /\ cpc = "parse"
  /\ stream = <<>> \/ preproc.fatal_error
  /\ cpc' = "parsed"
  /\ UNCHANGED <<program, preproc, stream, compiled>>
  /\ UNCHANGED <<definevars, includevars>>

\* Mutant: the program is returned without asking the preprocessor.
compile_return_unchecked ==
  /\ cpc = "parsed"
  /\ program' = program
  /\ compiled' = [compiled EXCEPT
                    !.result = "program", !.source.ref_count = @ - 1]
  /\ preproc' = [preproc EXCEPT !.ref_count = @ - 1]
  /\ stream' = <<>>
  /\ cpc' = "idle"
  /\ UNCHANGED <<definevars, includevars>>

\* gsk_sl_compiler_compile after the parse, and the caller's unref of the
\* source
gsk_sl_compiler_compile_return ==
  /\ cpc = "parsed"
  /\ IF gsk_sl_preprocessor_has_fatal_error(preproc)
       THEN /\ program' = [program EXCEPT !.state = "freed"]
            /\ compiled' = [compiled EXCEPT
                              !.result = "NULL", !.source.ref_count = @ - 1]
       ELSE /\ program' = program
            /\ compiled' = [compiled EXCEPT
                              !.result = "program",
                              !.source.ref_count = @ - 1]
  /\ preproc' = [preproc EXCEPT !.ref_count = @ - 1]
  /\ stream' = <<>>
  /\ cpc' = "idle"
  /\ UNCHANGED <<definevars, includevars>>

-----------------------------------------------------------------------------
(* Specifications *)

InitDefines ==
  /\ compiler = "alive"
  /\ defines = EmptyTable
  /\ heap = <<>>
  /\ copies = <<>>
  /\ pc = "idle"
  /\ define = 0
  /\ tokenizer = NoTokenizer
  /\ token = "NONE"
  /\ location = StartPosition
  /\ real_error = NoError
  /\ error = NoError
  /\ ret = FALSE
  /\ op = NoOp
  /\ diags = <<>>
  /\ reads = 0

InitInclude == files = {} /\ include = NoInclude

InitCompile ==
  /\ cpc = "idle"
  /\ program = NoProgram
  /\ preproc = NoPreprocessor
  /\ stream = <<>>
  /\ compiled = NoCompile

Init == InitDefines /\ InitInclude /\ InitCompile

\* The table of defines and its copies
Next ==
  \/ \E name \in Names, definition \in TableDefinitions :
       gsk_sl_compiler_add_define(name, definition)
  \/ gsk_sl_compiler_add_define_read
  \/ gsk_sl_compiler_add_define_finish
  \/ \E name \in Names : gsk_sl_compiler_remove_define(name)
  \/ gsk_sl_compiler_copy_defines
  \/ gsk_sl_compiler_dispose
  \/ \E c \in 1..MaxCopies, name \in Names : copy_remove(c, name)
  \/ \E c \in 1..MaxCopies, name \in Names : copy_add(c, name)
  \/ \E c \in 1..MaxCopies : copy_destroy(c)

Spec == Init /\ [][Next]_vars

\* The tokenization of definitions
NextLex ==
  \/ \E definition \in Definitions :
       gsk_sl_compiler_add_define(FOO, definition)
  \/ gsk_sl_compiler_add_define_read
  \/ gsk_sl_compiler_add_define_finish

SpecLex == Init /\ [][NextLex]_vars

\* Include resolution over every file system
InitResolve ==
  /\ InitDefines /\ InitCompile
  /\ files \in SUBSET AllFiles
  /\ include = NoInclude

NextResolve ==
  \E source \in BaseSources, local \in BOOLEAN, name \in IncludeNames :
    gsk_sl_compiler_resolve_include(source, local, name)

SpecResolve == InitResolve /\ [][NextResolve]_vars

\* The compile entry points
NextCompile ==
  \/ \E text \in ProgramTexts, loadable \in BOOLEAN :
       gsk_sl_compiler_compile_file(<<"dir", "main.glsl">>, text, loadable)
  \/ \E text \in ProgramTexts : gsk_sl_compiler_compile_bytes(text)
  \/ gsk_sl_program_parse_token
  \/ gsk_sl_program_parse_return
  \/ gsk_sl_compiler_compile_return

SpecCompile == Init /\ [][NextCompile]_vars

-----------------------------------------------------------------------------
(* What a definition text is expected to produce, read off the text *)

EffectiveText(definition) ==
  IF definition = NULLDefinition THEN <<"one">> ELSE definition

\* The position of lexeme i of a text: the newlines before it, and the
\* lexemes between the last of them and it.
LocationAt(text, i) ==
  LET newlines == {j \in 1..(i - 1) : text[j] = "newline"}
      last == IF newlines = {} THEN 0
              ELSE CHOOSE j \in newlines : \A k \in newlines : k <= j
  IN [lines |-> Cardinality(newlines), line_bytes |-> i - 1 - last]

Skippable(c) == c \in {"space", "newline", "bad"}

\* The skip-filtered tokenization of a definition, each token with the
\* location of its start.
ExpectedBody(definition) ==
  LET text == EffectiveText(definition)
      all == [i \in 1..Len(text) |->
                [location |-> LocationAt(text, i),
                 token |-> TokenType(text[i]), skip |-> Skippable(text[i])]]
      kept == SelectSeq(all, LAMBDA e : ~e.skip)
  IN [i \in 1..Len(kept) |->
        [location |-> kept[i].location, token |-> kept[i].token]]

HasFatal(definition) ==
  \E i \in 1..Len(EffectiveText(definition)) :
    EffectiveText(definition)[i] \in {"bad", "junk"}

AddDefineReturned ==
  /\ pc = "idle"
  /\ op.name = "add_define"
  /\ gsk_sl_string_is_valid_identifier(op.key)

-----------------------------------------------------------------------------
(* C1 *)

\* C1 as stated: add_define with a valid identifier succeeds for every
\* definition, and the table then maps the name to the skip-filtered
\* tokenization of the definition.
C1_AddDefineAlwaysSucceeds ==
  AddDefineReturned =>
    /\ ret
    /\ op.key \in DOMAIN CopyTable(defines)
    /\ heap[CopyTable(defines)[op.key]].tokens = ExpectedBody(op.definition)

\* C1 amended: add_define with a valid identifier succeeds for every
\* definition whose tokenization delivers no fatal diagnostic; whenever it
\* succeeds, the table as copied by copy_defines maps the name to the define
\* just built, which replaces any earlier one, is named by the identifier
\* and whose body is the tokenization of the definition (1 when absent)
\* without the skipped tokens and without EOF, each token with the location
\* taken before it was read, in reading order.
C1_AddDefineStoresBody ==
  AddDefineReturned =>
    /\ ret <=> ~HasFatal(op.definition)
    /\ ret =>
         /\ op.key \in DOMAIN CopyTable(defines)
         /\ CopyTable(defines)[op.key] = define
         /\ heap[define].name = op.key
         /\ heap[define].tokens = ExpectedBody(op.definition)
         /\ \A id \in 1..(define - 1) :
              heap[id].name = op.key => ~(\E k \in DOMAIN defines :
                                            defines[k] = id)

\* A redefinition went through, of a text that starts with a newline: the
\* earlier define is gone and the body is one token on the second line.
C1_Witness ==
  /\ AddDefineReturned
  /\ ret
  /\ define > 1
  /\ heap[1] = Destroyed
  /\ Len(op.definition) = 2
  /\ Len(heap[define].tokens) = 1
  /\ heap[define].tokens[1].location.lines = 1

-----------------------------------------------------------------------------
(* C2 *)

\* The table as a client sees it: the names and what each maps to.
TableContents ==
  [k \in DOMAIN defines |->
     [define |-> defines[k], name |-> heap[defines[k]].name,
      tokens |-> heap[defines[k]].tokens]]

\* C2: every step of an add_define call other than a successful return
\* leaves the table as it was, so a call that fails, for an invalid name or
\* for a fatal diagnostic, returns with the table it was called with: no
\* entry added, an existing definition of the name retained.
C2_FailedAddDefineKeepsTable ==
  [][(op'.name = "add_define" /\ ~(pc' = "idle" /\ ret'))
       => (defines' = defines /\ TableContents' = TableContents)]_vars

\* add_define failed on a fatal diagnostic while the name was defined.
C2_Witness ==
  /\ AddDefineReturned
  /\ ~ret
  /\ error # NoError
  /\ op.key \in DOMAIN defines
  /\ defines[op.key] # define
  /\ heap[defines[op.key]].tokens # <<>>
  /\ heap[define] = Destroyed

-----------------------------------------------------------------------------
(* C3 *)

CompilerCalls == {"add_define", "remove_define", "copy_defines", "dispose"}
CopyCalls == {"copy_remove", "copy_add", "copy_destroy"}

\* C3: a step of a call on the Compiler leaves every live copy with the
\* same keys, the same define under every key, and that define alive with
\* its name and body unchanged; a step of the holder of a copy that adds
\* to, removes from or destroys the copy leaves the Compiler's table and
\* the defines in it unchanged.
C3_CopyIndependent ==
  [][/\ op'.name \in CompilerCalls =>
          \A c \in 1..Len(copies) :
            copies[c].live =>
              /\ copies'[c] = copies[c]
              /\ \A k \in DOMAIN copies[c].table :
                   LET id == copies[c].table[k]
                   IN /\ heap'[id].ref_count >= 1
                      /\ heap'[id].name = heap[id].name
                      /\ heap'[id].tokens = heap[id].tokens
     /\ op'.name \in CopyCalls =>
          /\ defines' = defines
          /\ TableContents' = TableContents
          /\ \A k \in DOMAIN defines : heap'[defines[k]].ref_count >= 1
    ]_vars

\* A name was redefined after a copy was taken: the copy still holds the
\* old define with its body, the Compiler holds another.
C3_Witness ==
  /\ AddDefineReturned
  /\ ret
  /\ \E c \in 1..Len(copies) :
       /\ copies[c].live
       /\ op.key \in DOMAIN copies[c].table
       /\ copies[c].table[op.key] # defines[op.key]
       /\ heap[copies[c].table[op.key]].tokens # <<>>
       /\ heap[copies[c].table[op.key]].tokens # heap[defines[op.key]].tokens

-----------------------------------------------------------------------------
(* C7 *)

\* C7: remove_define(name) leaves a table without name in which every
\* other entry is the same define with the same contents; when name was
\* absent nothing changes at all, and no error or return value is set.
C7_RemoveDefineFrame ==
  [][op'.name = "remove_define" =>
       /\ DOMAIN defines' = (DOMAIN defines) \ {op'.key}
       /\ \A k \in DOMAIN defines' :
            /\ defines'[k] = defines[k]
            /\ heap'[defines[k]] = heap[defines[k]]
       /\ op'.key \notin DOMAIN defines =>
            /\ defines' = defines
            /\ heap' = heap
       /\ error' = error
       /\ ret' = ret
    ]_vars

\* remove_define has removed a name and the other name is still defined.
C7_Witness ==
  /\ op.name = "remove_define"
  /\ op.key = FOO
  /\ DOMAIN defines = {BAR}
  /\ \E id \in 1..Len(heap) : heap[id] = Destroyed

-----------------------------------------------------------------------------
(* C8 *)

Fatals(ds) == SelectSeq(ds, LAMBDA d : d.fatal)

\* The error of a diagnostic with "<line>:<col>: " in front: the line
\* 1-based in width 3, the column as stored in width 2.
WithLocationPrefix(d) ==
  [d.error EXCEPT !.message =
     FormatZu(d.location.lines + 1, 3) \o <<":">>
       \o FormatZu(d.location.line_bytes, 2) \o <<":", " ">> \o @]

FirstFatalOrNone(ds) ==
  IF Fatals(ds) = <<>> THEN NoError ELSE WithLocationPrefix(Fatals(ds)[1])

\* C8: all through one add_define, what the callback has recorded is the
\* first fatal diagnostic delivered so far, with its location prefix, and
\* nothing when none was fatal; add_define fails exactly when a fatal
\* diagnostic was delivered, and then reports that first one.
C8_FirstFatalWins ==
  /\ (op.name = "add_define" /\ pc # "idle") =>
       real_error = FirstFatalOrNone(diags)
  /\ AddDefineReturned =>
       /\ ~ret <=> Fatals(diags) # <<>>
       /\ error = FirstFatalOrNone(diags)

\* add_define returned after a warning and then two different fatal
\* diagnostics, and reports the first of them as on line 1.
C8_Witness ==
  /\ AddDefineReturned
  /\ ~ret
  /\ Len(Fatals(diags)) >= 2
  /\ Fatals(diags)[1].error # Fatals(diags)[2].error
  /\ Fatals(diags)[1].location # Fatals(diags)[2].location
  /\ ~diags[1].fatal
  /\ SubSeq(error.message, 1, 3) = <<" ", " ", "1">>
  /\ error.message[Len(error.message)] = Fatals(diags)[1].error.message[1]

-----------------------------------------------------------------------------
(* C9 *)

-----------------------------------------------------------------------------
(* C10 *)

KeysHolding(t, id) == Cardinality({k \in DOMAIN t : t[k] = id})

RECURSIVE CopiesHolding(_, _)
CopiesHolding(cs, id) ==
  IF cs = <<>> THEN 0
  ELSE (IF Head(cs).live THEN KeysHolding(Head(cs).table, id) ELSE 0)
         + CopiesHolding(Tail(cs), id)

\* The live tables holding define id, counted per entry.
Holders(id) == KeysHolding(defines, id) + CopiesHolding(copies, id)

\* The reference add_define itself has while it builds a define.
BeingBuilt(id) == IF pc # "idle" /\ define = id THEN 1 ELSE 0

\* C10: the reference count of every define is the number of live tables
\* holding it (plus add_define's own while it builds it), and a define is
\* destroyed exactly when no table holds it.
C10_RefCountIsHolders ==
  \A id \in 1..Len(heap) :
    /\ heap[id].ref_count = Holders(id) + BeingBuilt(id)
    /\ heap[id] = Destroyed <=> Holders(id) + BeingBuilt(id) = 0

\* The Compiler is gone, a copy outlives it holding a define on its own,
\* and another define was destroyed.
C10_Witness ==
  /\ compiler = "disposed"
  /\ \E id \in 1..Len(heap) :
       heap[id].ref_count = 1 /\ CopiesHolding(copies, id) = 1
  /\ \E id \in 1..Len(heap) : heap[id] = Destroyed

-----------------------------------------------------------------------------
(* C5, C6 *)

Contains(s, part) ==
  \E i \in 1..(Len(s) - Len(part) + 1) :
    SubSeq(s, i, i + Len(part) - 1) = part

\* C5: resolve_include with local = FALSE returns no source, sets the
\* "could not resolve in search path" error with the name in it, and
\* neither creates a source nor loads a file.
C5_NonLocalAlwaysFails ==
  (include.called /\ ~include.local) =>
    /\ include.result = NoSource
    /\ include.candidate = NoSource
    /\ include.loads = {}
    /\ include.error.domain = "G_FILE_ERROR"
    /\ include.error.code = "G_FILE_ERROR_EXIST"
    /\ Contains(include.error.message, include.name)
    /\ Contains(include.error.message, <<"\" in search path.">>)

\* A non-local include was asked for a name that a local include against
\* the same base would have found.
C5_Witness ==
  /\ include.called
  /\ ~include.local
  /\ include.base.file # NoFile
  /\ g_file_get_parent(include.base.file) \o include.name \in files

\* C6: a resolve_include that returns no source has set an error.
C6_NullComesWithError ==
  (include.called /\ include.result = NoSource) => include.error # NoError

-----------------------------------------------------------------------------
(* C4 *)

CompileReturned == cpc = "idle" /\ compiled.entry # "none"

TextHasFatal ==
  \E i \in 1..Len(compiled.text) : compiled.text[i] = "fatal"

\* C4: a compile call returns NULL exactly when the preprocessor has
\* recorded a fatal error by the end of the parse; the program returned is
\* alive and has consumed the whole stream with no fatal error in it; the
\* program of a failed call is discarded; the preprocessor is released in
\* both outcomes.
C4_NullIffFatal ==
  CompileReturned =>
    /\ compiled.result \in {"NULL", "program"}
    /\ compiled.result = "NULL" <=> preproc.fatal_error
    /\ compiled.result = "NULL" <=> (~compiled.loadable \/ TextHasFatal)
    /\ compiled.result = "program" =>
         program.state = "live" /\ program.parsed = Len(compiled.text)
    /\ compiled.result = "NULL" => program.state = "freed"
    /\ preproc.ref_count = 0

\* A compile call returned NULL although the program had parsed tokens
\* before the preprocessor hit the fatal error.
C4_Witness ==
  /\ CompileReturned
  /\ compiled.result = "NULL"
  /\ program.parsed >= 2
  /\ compiled.text[1] # "fatal"

====
